---- MODULE Spec2Model ----
(***************************************************************************)
(* Model of the kyde-energy-netting closing state machine                  *)
(* (src/app/main.py, src/app/logic.py, src/app/models.py).                 *)
(*                                                                         *)
(* Money: ledger amounts (Numeric(18,4)) are integers in units of          *)
(* 1/10000 EUR; balances, DayNets, transfers and payouts are integers in   *)
(* cents (the code quantizes them to 0.01).                                *)
(* The database is the committed rows; a request handler is a worker that  *)
(* moves from commit to commit (pc), each step reading the committed rows  *)
(* as they are at that moment (READ COMMITTED).  One billing cycle label   *)
(* is modelled; Dates are its days.                                        *)
(* The pure parts are also applied on their own to bounded inputs:         *)
(* optimize_edges (SpecOpt) and, from src/app/policy_dsl.py, _eval_tiers   *)
(* (SpecTiers), _parse_policy (SpecRules) and safe_eval (SpecSandbox).     *)
(***************************************************************************)
EXTENDS Integers, Sequences, FiniteSets, Bags, TLC

\* ---------------------------------------------------------------- bounds
NumWorkers == 2
MaxParticipants == 2
MaxLedger == 2
NumDates == 1
MaxRuns == 2
MaxDayNets == 2

Workers == 1..NumWorkers
Pids == 1..MaxParticipants
Dates == 1..NumDates

\* models.Role; PROSUMER is left out of the inputs: the closing code only
\* tells OPERATOR from the other roles
Roles == {"CONSUMER", "OPERATOR"}

\* amount_eur of an event, in 1/10000 EUR: -0.01, +0.01, +0.015
Amounts == {-100, 100, 150}

\* policy versions a request can name, and operator_fee_pct values (in %)
PolicyVersions == {"v1"}
FeePcts == {0, 50}
NoPolicy == -1

\* (fixed_cost_eur in cents, variable_cost_rate in 1/10000 per EUR) of a
\* close request: the defaults of CloseDayIn
CostModels == {<<8, 35>>}

\* ------------------------------------------------------- decimal helpers

\* Decimal.quantize with the context's default ROUND_HALF_EVEN: n/d rounded
\* to an integer, ties to the even neighbour
RoundHalfEven(n, d) ==
    LET q == n \div d
        r == n % d
    IN  IF 2 * r < d THEN q
        ELSE IF 2 * r > d THEN q + 1
        ELSE IF q % 2 = 0 THEN q ELSE q + 1

\* Decimal.quantize(..., rounding=ROUND_HALF_UP): ties away from zero
RoundHalfUp(n, d) ==
    LET a == IF n < 0 THEN -n ELSE n
        q == (2 * a + d) \div (2 * d)
    IN  IF n < 0 THEN -q ELSE q

\* _to_cents of a value held in cents, and _from_cents
ToCents(c) == RoundHalfUp(c * 100, 100)
FromCents(i) == RoundHalfEven(i * 100, 100)

Abs(x) == IF x < 0 THEN -x ELSE x

RECURSIVE SumOver(_, _)
\* sum of f[x] for x in S
SumOver(f, S) ==
    IF S = {} THEN 0
    ELSE LET x == CHOOSE y \in S : TRUE IN f[x] + SumOver(f, S \ {x})

\* the bag with one copy of each element of the function's graph
\* {<<k, f[k]>>}, prefixed by a tag: rows written from a balances map
BagOfRows(tag, f) == SetToBag({<<tag, k, f[k]>> : k \in DOMAIN f})

EmptyMap == [x \in {} |-> 0]

\* ------------------------------------------------------ pure functions

\* rows of a bag of tuples whose first component is d
RowsOf(bag, d) == {r \in BagToSet(bag) : r[1] = d}

\* compute_day_balances: per participant, the quantized sum of the ledger
\* entries whose event_ts falls in the day.  Ledger rows are
\* <<participant, amount, date>>.
LedgerSum(led, pid, d) ==
    LET rows == {r \in BagToSet(led) : r[1] = pid /\ r[3] = d}
        amt == [r \in rows |-> CopiesIn(r, led) * r[2]]
    IN  SumOver(amt, rows)

ComputeDayBalances(led, d) ==
    LET pids == {r[1] : r \in {x \in BagToSet(led) : x[3] = d}}
    IN  [p \in pids |-> RoundHalfEven(LedgerSum(led, p, d), 100)]

\* compute_month_balances_from_daynets: per participant, the quantized sum
\* of the DayNet rows of every TradingDay row of the cycle.  DayNet rows are
\* <<date, participant, net>>, nets in cents (stored with 4 decimals).
DayNetSum(nets, dayset, pid) ==
    LET rows == {r \in BagToSet(nets) : r[2] = pid /\ r[1] \in dayset}
        amt == [r \in rows |-> CopiesIn(r, nets) * r[3] * 100]
    IN  SumOver(amt, rows)

ComputeMonthBalances(nets, dayset) ==
    LET pids == {r[2] : r \in {x \in BagToSet(nets) : x[1] \in dayset}}
    IN  [p \in pids |-> RoundHalfEven(DayNetSum(nets, dayset, p), 100)]

\* _apply_operator_fee; op = 0 is "no operator", pct is in percent.
\* fee = (bal * pct).quantize(0.01), half-even
Fee(bal, pct) == RoundHalfEven(bal * pct, 100)

\* the fee pass without the test bal > 0: every non-operator participant pays
ApplyOperatorFeeAnySign(bal, op, pct) ==
    IF op = 0 \/ pct = 0 THEN bal
    ELSE LET payers == {p \in DOMAIN bal : p # op}
             fees == [p \in payers |-> Fee(bal[p], pct)]
             dom == IF payers = {} THEN DOMAIN bal ELSE DOMAIN bal \cup {op}
         IN  [p \in dom |-> IF p = op THEN (IF op \in DOMAIN bal THEN bal[op] ELSE 0) + SumOver(fees, payers)
                            ELSE bal[p] - fees[p]]

\* _apply_operator_fee
ApplyOperatorFee(bal, op, pct) ==
    IF op = 0 \/ pct = 0 THEN bal
    ELSE LET payers == {p \in DOMAIN bal : p # op /\ bal[p] > 0}
             fees == [p \in payers |-> Fee(bal[p], pct)]
             dom == IF payers = {} THEN DOMAIN bal ELSE DOMAIN bal \cup {op}
         IN  [p \in dom |->
                IF p = op
                THEN (IF op \in DOMAIN bal THEN bal[op] ELSE 0)
                     + SumOver(fees, payers)
                ELSE IF p \in payers THEN bal[p] - fees[p] ELSE bal[p]]

\* _balances_to_graph: debtors, creditors, totals in cents
Debtors(bal) == {p \in DOMAIN bal : bal[p] < 0}
Creditors(bal) == {p \in DOMAIN bal : bal[p] > 0}
TotalDebt(bal) == SumOver([p \in Debtors(bal) |-> ToCents(-bal[p])], Debtors(bal))
TotalCredit(bal) == SumOver([p \in Creditors(bal) |-> ToCents(bal[p])], Creditors(bal))
Imbalanced(bal) == Abs(TotalDebt(bal) - TotalCredit(bal)) > 1

\* capacity of the activation edge D_i -> ACT_i_j, which is in series with
\* the variable-cost edge ACT_i_j -> C_j
ActivationCapacity == 1

\* vc_scaled = max(1, int(variable_cost_rate * 100000)), rate in 1/10000
VcScaled(rate) == IF rate * 10 > 1 THEN rate * 10 ELSE 1

\* The flows of the graph that meet the demands (SRC supplies total_debt,
\* SINK takes total_debt): f[i, j] is the flow on D_i -> ACT_i_j -> C_j.
FeasibleFlows(bal) ==
    LET D == Debtors(bal)
        C == Creditors(bal)
    IN  {f \in [D \X C -> 0..ActivationCapacity] :
            /\ \A i \in D : SumOver([j \in C |-> f[<<i, j>>]], C) = ToCents(-bal[i])
            /\ \A j \in C : SumOver([i \in D |-> f[<<i, j>>]], D) <= ToCents(bal[j])}

FlowCost(f, cost) ==
    SumOver([e \in DOMAIN f |-> f[e] * (ToCents(cost[1]) + VcScaled(cost[2]))], DOMAIN f)

\* nx.network_simplex returns one minimum-cost flow; which one among
\* several of equal cost depends on the solver's pivoting
OptimalFlows(bal, cost) ==
    {f \in FeasibleFlows(bal) :
        \A g \in FeasibleFlows(bal) : FlowCost(f, cost) <= FlowCost(g, cost)}

\* the edge list without the test cents > 0: one edge per ACT_* node
FlowEdgesAll(f) == {<<e[1], e[2], FromCents(f[e])>> : e \in DOMAIN f}

\* optimize_edges lines 144-153: the ACT_* -> C_* flows that are positive
FlowEdges(f) == {<<e[1], e[2], FromCents(f[e])>> : e \in {x \in DOMAIN f : f[x] > 0}}

\* optimize_edges: the outcomes it can have; err is "none", "imbalance"
\* (ValueError) or "unfeasible" (NetworkXUnfeasible)
OptimizeEdges(bal, cost) ==
    IF DOMAIN bal = {} THEN {[err |-> "none", edges |-> {}]}
    ELSE IF Imbalanced(bal) THEN {[err |-> "imbalance", edges |-> {}]}
    ELSE IF OptimalFlows(bal, cost) = {} THEN {[err |-> "unfeasible", edges |-> {}]}
    ELSE {[err |-> "none", edges |-> FlowEdges(f)] : f \in OptimalFlows(bal, cost)}

\* merkleish_hash: the SHA-256 of the JSON of the items sorted by
\* (from_id, to_id, amount_eur).  The digest is modelled by the sorted
\* content it is taken over, i.e. the bag of items; the sort key raises
\* KeyError on an item without one of the three keys.
HashKeys == {"from_id", "to_id", "amount_eur"}
MerkleishHash(items) ==
    IF \E x \in BagToSet(items) : ~(HashKeys \subseteq DOMAIN x)
    THEN [err |-> TRUE, digest |-> EmptyBag]
    ELSE [err |-> FALSE, digest |-> items]

\* edge_rows / edges_out of close_trading_day and payouts of
\* run_monthly_settlement, as the items handed to merkleish_hash
EdgeItems(edges) ==
    SetToBag({[from_id |-> e[1], to_id |-> e[2], amount_eur |-> e[3]] : e \in edges})

RECURSIVE PayoutItems(_)
PayoutItems(edges) ==
    IF edges = {} THEN EmptyBag
    ELSE LET e == CHOOSE x \in edges : TRUE
         IN  SetToBag({[to_id |-> e[2], amount_eur |-> e[3]]}) (+) PayoutItems(edges \ {e})

\* ---------------------------------------------------------------- state

VARIABLES
    participants,   \* participants table: role by id (ids are 1..Len)
    policies,       \* policies table: operator_fee_pct by version, or NoPolicy
    cycle,          \* billing_cycles row of the label: "none", "open", "closed"
    days,           \* trading_days rows: status by date, "none" when no row
    ledger,         \* ledger_entries rows: bag of <<participant, amount, date>>
    dayNets,        \* day_nets rows: bag of <<date, participant, net>>
    transfers,      \* internal_transfers rows: bag of <<date, from, to, amount>>
    runs,           \* settlement_runs rows by id: [policy_version, summary]
    payouts,        \* payout_instructions rows: bag of <<run, participant, amount>>
    traces,         \* explain_traces rows: bag of <<participant, date>>
    pc,             \* per worker: where its request handler stands
    loc,            \* per worker: the handler's local variables
    resp,           \* the response of the request that ended in the last step
    closeResult,    \* per date: what the close that closed the day returned
    optimizer,      \* a stand-alone use of optimize_edges: input and two runs
    engine          \* a stand-alone use of a pure function: a call and its result

dbvars == <<participants, policies, cycle, days, ledger, dayNets, transfers, runs, payouts,
           traces>>
vars == <<participants, policies, cycle, days, ledger, dayNets, transfers, runs,
          payouts, traces, pc, loc, resp, closeResult, optimizer, engine>>

NoLoc == [date |-> 0, pv |-> "", cost |-> <<0, 0>>,
          bal |-> EmptyMap, edges |-> {}, run |-> 0, part |-> 0, lines |-> <<>>]
NoHash == [err |-> FALSE, digest |-> EmptyBag]
NoResp == [op |-> "", status |-> 0, detail |-> "", date |-> 0, n |-> 0,
           nets |-> EmptyBag, hash |-> NoHash]
NoResult == [closed |-> FALSE, nets |-> EmptyBag, hash |-> NoHash]
NoSummary == [participants |-> -1, payout_count |-> -1, audit_hash |-> NoHash,
              cost_model |-> <<-1, -1>>]

Response(op, status, detail) == [NoResp EXCEPT !.op = op, !.status = status, !.detail = detail]

\* no run of the optimizer yet / no stand-alone use of it at all
NoRun == [done |-> FALSE, order |-> <<>>, err |-> "", edges |-> {}, hash |-> NoHash]
NoOptimizer == [bal |-> EmptyMap, cost |-> <<0, 0>>, first |-> NoRun, second |-> NoRun]
NoEngine == [call |-> "none", done |-> FALSE]

InitDb ==
    /\ participants = <<>>
    /\ policies = [v \in PolicyVersions |-> NoPolicy]
    /\ cycle = "none"
    /\ days = [d \in Dates |-> "none"]
    /\ ledger = EmptyBag
    /\ dayNets = EmptyBag
    /\ transfers = EmptyBag
    /\ runs = <<>>
    /\ payouts = EmptyBag
    /\ traces = EmptyBag
    /\ pc = [w \in Workers |-> "idle"]
    /\ loc = [w \in Workers |-> NoLoc]
    /\ resp = NoResp
    /\ closeResult = [d \in Dates |-> NoResult]

Init ==
    /\ InitDb
    /\ optimizer = NoOptimizer
    /\ engine = NoEngine

\* a handler returns or raises: the worker is idle again
Reply(w, r) ==
    /\ pc' = [pc EXCEPT ![w] = "idle"]
    /\ loc' = [loc EXCEPT ![w] = NoLoc]
    /\ resp' = r
    /\ UNCHANGED <<optimizer, engine>>

\* ... without a new explain_traces row (only ingest_event_and_eval adds one)
Finish(w, r) == Reply(w, r) /\ UNCHANGED traces

\* a handler goes on to its next statement after a commit
Goto(w, label, l) ==
    /\ pc' = [pc EXCEPT ![w] = label]
    /\ loc' = [loc EXCEPT ![w] = l]
    /\ resp' = NoResp
    /\ UNCHANGED <<optimizer, engine, traces>>

\* get_or_create_cycle: the status of the cycle row after the call
GetOrCreateCycle(c) == IF c = "none" THEN "open" ELSE c

\* get_or_create_day without the lookup: a new open row every time
GetOrCreateDayAlwaysNew(st) == "open"

\* get_or_create_day: the status of the day row after the call
GetOrCreateDay(st) == IF st = "none" THEN "open" ELSE st

\* select Participant where role == OPERATOR, db.scalar: the first row in an
\* order the query does not fix; 0 when there is none
OperatorChoices ==
    LET ops == {p \in 1..Len(participants) : participants[p] = "OPERATOR"}
    IN  IF ops = {} THEN {0} ELSE ops

\* ------------------------------------------ participants and policies

\* create_participant / upsert_participant.  External ids are numbered in
\* the order of their creation, so external id k has internal id k.
CreateParticipant(w, ext, role) ==
    /\ pc[w] = "idle"
    /\ ext <= Len(participants) + 1
    /\ participants' = IF ext <= Len(participants)
                       THEN [participants EXCEPT ![ext] = role]
                       ELSE Append(participants, role)
    /\ Finish(w, Response("create_participant", 200, "ok"))
    /\ UNCHANGED <<policies, cycle, days, ledger, dayNets, transfers, runs,
                   payouts, closeResult>>

\* set_policy.  hash_hex is unique: a second version with the same data
\* fails at commit (IntegrityError) and stores nothing.
\* set_policy that stores the data whether or not the version exists
SetPolicyUpsert(w, v, pct) ==
    /\ pc[w] = "idle"
    /\ policies' = [policies EXCEPT ![v] = pct]
    /\ Finish(w, Response("set_policy", 200, "ok"))
    /\ UNCHANGED <<participants, cycle, days, ledger, dayNets, transfers, runs,
                   payouts, closeResult>>

SetPolicy(w, v, pct) ==
    /\ pc[w] = "idle"
    /\ IF policies[v] # NoPolicy
       THEN /\ Finish(w, Response("set_policy", 409, "Policy version exists"))
            /\ UNCHANGED policies
       ELSE IF \E u \in PolicyVersions : policies[u] = pct
       THEN /\ Finish(w, Response("set_policy", 500, "IntegrityError"))
            /\ UNCHANGED policies
       ELSE /\ policies' = [policies EXCEPT ![v] = pct]
            /\ Finish(w, Response("set_policy", 200, "ok"))
    /\ UNCHANGED <<participants, cycle, days, ledger, dayNets, transfers, runs,
                   payouts, closeResult>>

\* ------------------------------------------------------------- events

\* ingest_event that also posts the amount to the DayNets of its day
IngestEventRenet(w, ext, amt, d) ==
    /\ pc[w] = "idle"
    /\ BagCardinality(ledger) < MaxLedger
    /\ cycle' = GetOrCreateCycle(cycle)
    /\ cycle' = "open"
    /\ ext <= Len(participants)
    /\ ledger' = ledger (+) SetToBag({<<ext, amt, d>>})
    /\ dayNets' = dayNets (+) SetToBag({<<d, ext, RoundHalfEven(amt, 100)>>})
    /\ Finish(w, [Response("ingest_event", 200, "ok") EXCEPT !.date = d])
    /\ UNCHANGED <<participants, policies, days, transfers, runs, payouts, closeResult>>

\* ingest_event: the cycle must be open and the participant known; then
\* add_ledger_entry.  event_ts falls on date d.
IngestEvent(w, ext, amt, d) ==
    /\ pc[w] = "idle"
    /\ BagCardinality(ledger) < MaxLedger
    /\ cycle' = GetOrCreateCycle(cycle)
    /\ IF cycle' # "open"
       THEN /\ Finish(w, Response("ingest_event", 400, "Cycle is closed"))
            /\ UNCHANGED ledger
       ELSE IF ext > Len(participants)
       THEN /\ Finish(w, Response("ingest_event", 404, "Participant not found"))
            /\ UNCHANGED ledger
       ELSE /\ ledger' = ledger (+) SetToBag({<<ext, amt, d>>})
            /\ Finish(w, [Response("ingest_event", 200, "ok") EXCEPT !.date = d])
    /\ UNCHANGED <<participants, policies, days, dayNets, transfers, runs,
                   payouts, closeResult>>

\* ---------------------------------------------------------- close_day

\* nets_out of a fresh close: one item per entry of the balances map
NetsOut(bal) == SetToBag({<<p, bal[p]>> : p \in DOMAIN bal})

\* items of the read-back branch: one item per DayNet row of the day
ReadBackNets(d) ==
    [x \in {<<r[2], r[3]>> : r \in RowsOf(dayNets, d)} |->
        CopiesIn(<<d, x[1], x[2]>>, dayNets)]

\* edges_out of the read-back branch: one item per InternalTransfer row
ReadBackEdges(d) ==
    [x \in {[from_id |-> r[2], to_id |-> r[3], amount_eur |-> r[4]] :
                r \in RowsOf(transfers, d)} |->
        CopiesIn(<<d, x.from_id, x.to_id, x.amount_eur>>, transfers)]

CloseDayResponse(d, nets, hash) ==
    [Response("close_day", 200, "closed") EXCEPT !.date = d, !.nets = nets, !.hash = hash]

\* main.close_day, lines 155-165
CloseDayBegin(w, d, pv, cost) ==
    /\ pc[w] = "idle"
    /\ BagCardinality(dayNets) < MaxDayNets
    /\ cycle' = GetOrCreateCycle(cycle)
    /\ IF cycle' # "open"
       THEN Finish(w, [Response("close_day", 400, "Cycle is closed") EXCEPT !.date = d])
       ELSE IF policies[pv] = NoPolicy
       THEN Finish(w, [Response("close_day", 404, "Policy not found") EXCEPT !.date = d])
       ELSE Goto(w, "cd_day", [NoLoc EXCEPT !.date = d, !.pv = pv, !.cost = cost])
    /\ UNCHANGED <<participants, policies, days, ledger, dayNets, transfers, runs,
                   payouts, closeResult>>

\* close_trading_day, lines 162-174: get_or_create_day, and the read-back
\* of a day that is already closed
CloseDayGetDay(w) ==
    LET d == loc[w].date IN
    /\ pc[w] = "cd_day"
    /\ days' = [days EXCEPT ![d] = GetOrCreateDay(days[d])]
    /\ IF days'[d] = "closed"
       THEN Finish(w, CloseDayResponse(d, ReadBackNets(d), MerkleishHash(ReadBackEdges(d))))
       ELSE Goto(w, "cd_nets", loc[w])
    /\ UNCHANGED <<participants, policies, cycle, ledger, dayNets, transfers, runs,
                   payouts, closeResult>>

\* close_trading_day, lines 177-189: balances, operator fee, DayNet rows
CloseDayNets(w) ==
    LET d == loc[w].date IN
    /\ pc[w] = "cd_nets"
    /\ \E op \in OperatorChoices :
         LET bal == ApplyOperatorFee(ComputeDayBalances(ledger, d), op, policies[loc[w].pv])
         IN  /\ dayNets' = dayNets (+) BagOfRows(d, bal)
             /\ Goto(w, "cd_edges", [loc[w] EXCEPT !.bal = bal])
    /\ UNCHANGED <<participants, policies, cycle, days, ledger, transfers, runs,
                   payouts, closeResult>>

\* close_trading_day, lines 192-198: optimize_edges, InternalTransfer rows
CloseDayEdges(w) ==
    LET d == loc[w].date IN
    /\ pc[w] = "cd_edges"
    /\ \E out \in OptimizeEdges(loc[w].bal, loc[w].cost) :
         IF out.err # "none"
         THEN /\ Finish(w, [Response("close_day", 500, out.err) EXCEPT !.date = d])
              /\ UNCHANGED transfers
         ELSE /\ transfers' = transfers (+)
                     SetToBag({<<d, e[1], e[2], e[3]>> : e \in out.edges})
              /\ Goto(w, "cd_flip", [loc[w] EXCEPT !.edges = out.edges])
    /\ UNCHANGED <<participants, policies, cycle, days, ledger, dayNets, runs,
                   payouts, closeResult>>

\* close_trading_day, lines 201-203, and the response of main.close_day
CloseDayFlip(w) ==
    LET d == loc[w].date
        nets == NetsOut(loc[w].bal)
        hash == MerkleishHash(EdgeItems(loc[w].edges))
    IN
    /\ pc[w] = "cd_flip"
    /\ days' = [days EXCEPT ![d] = "closed"]
    /\ closeResult' = [closeResult EXCEPT ![d] = [closed |-> TRUE, nets |-> nets, hash |-> hash]]
    /\ Finish(w, CloseDayResponse(d, nets, hash))
    /\ UNCHANGED <<participants, policies, cycle, ledger, dayNets, transfers, runs,
                   payouts>>

\* -------------------------------------------------------- close_cycle

\* the count with the wrong status filter
OpenDaysClosedFilter == Cardinality({d \in Dates : days[d] = "closed"})

\* db.query(TradingDay).filter_by(cycle_id, status="open").count()
OpenDays == Cardinality({d \in Dates : days[d] = "open"})

\* the TradingDay rows of the cycle
CycleDays == {d \in Dates : days[d] # "none"}

\* main.close_cycle, lines 208-218
CloseCycleBegin(w, pv, cost) ==
    /\ pc[w] = "idle"
    /\ Len(runs) + Cardinality({x \in Workers : pc[x] = "cc_run"}) < MaxRuns
    /\ cycle' = GetOrCreateCycle(cycle)
    /\ IF cycle' = "closed"
       THEN Finish(w, Response("close_cycle", 400, "Already closed"))
       ELSE IF OpenDays # 0
       THEN Finish(w, [Response("close_cycle", 400, "trading day(s) still open")
                          EXCEPT !.n = OpenDays])
       ELSE IF policies[pv] = NoPolicy
       THEN Finish(w, Response("close_cycle", 404, "Policy not found"))
       ELSE Goto(w, "cc_run", [NoLoc EXCEPT !.pv = pv, !.cost = cost])
    /\ UNCHANGED <<participants, policies, days, ledger, dayNets, transfers, runs,
                   payouts, closeResult>>

\* run_monthly_settlement, lines 207-216: month balances, operator fee,
\* optimize_edges, the SettlementRun row with an empty summary
CloseCycleRun(w) ==
    /\ pc[w] = "cc_run"
    /\ \E op \in OperatorChoices :
         LET bal == ApplyOperatorFee(ComputeMonthBalances(dayNets, CycleDays), op,
                                     policies[loc[w].pv])
         IN  \E out \in OptimizeEdges(bal, loc[w].cost) :
               IF out.err # "none"
               THEN /\ Finish(w, Response("close_cycle", 500, out.err))
                    /\ UNCHANGED runs
               ELSE /\ runs' = Append(runs, [policy_version |-> loc[w].pv,
                                             summary |-> NoSummary])
                    /\ Goto(w, "cc_payouts", [loc[w] EXCEPT !.bal = bal,
                                                !.edges = out.edges,
                                                !.run = Len(runs) + 1])
    /\ UNCHANGED <<participants, policies, cycle, days, ledger, dayNets, transfers,
                   payouts, closeResult>>

RECURSIVE PayoutRows(_, _)
\* one PayoutInstruction row <<run, creditor, amount>> per edge
PayoutRows(run, edges) ==
    IF edges = {} THEN EmptyBag
    ELSE LET e == CHOOSE x \in edges : TRUE
         IN  SetToBag({<<run, e[2], e[3]>>}) (+) PayoutRows(run, edges \ {e})

\* run_monthly_settlement, lines 218-230: the PayoutInstruction rows
CloseCyclePayouts(w) ==
    /\ pc[w] = "cc_payouts"
    /\ payouts' = payouts (+) PayoutRows(loc[w].run, loc[w].edges)
    /\ Goto(w, "cc_summary", loc[w])
    /\ UNCHANGED <<participants, policies, cycle, days, ledger, dayNets, transfers,
                   runs, closeResult>>

\* run_monthly_settlement, lines 232-242: the summary of the run
CloseCycleSummary(w) ==
    LET hash == MerkleishHash(PayoutItems(loc[w].edges)) IN
    /\ pc[w] = "cc_summary"
    /\ IF hash.err
       THEN /\ Finish(w, Response("close_cycle", 500, "KeyError"))
            /\ UNCHANGED runs
       ELSE /\ runs' = [runs EXCEPT ![loc[w].run].summary =
                          [participants |-> Cardinality(DOMAIN loc[w].bal),
                           payout_count |-> Cardinality(loc[w].edges),
                           audit_hash |-> hash,
                           cost_model |-> loc[w].cost]]
            /\ Goto(w, "cc_flip", loc[w])
    /\ UNCHANGED <<participants, policies, cycle, days, ledger, dayNets, transfers,
                   payouts, closeResult>>

\* main.close_cycle, lines 221-232
CloseCycleFlip(w) ==
    /\ pc[w] = "cc_flip"
    /\ cycle' = "closed"
    /\ Finish(w, [Response("close_cycle", 200, "closed") EXCEPT
                    !.n = runs[loc[w].run].summary.payout_count,
                    !.hash = runs[loc[w].run].summary.audit_hash])
    /\ UNCHANGED <<participants, policies, days, ledger, dayNets, transfers, runs,
                   payouts, closeResult>>

\* ------------------------------------------------------------- crash

\* the process serving a request dies between two commits: the rows it
\* committed stay, the rest of the handler never runs
Crash(w) ==
    /\ pc[w] # "idle"
    /\ Finish(w, Response("", 0, "crashed"))
    /\ UNCHANGED dbvars
    /\ UNCHANGED closeResult

\* ------------------------------------------- optimize_edges on its own

\* optimize_edges is a pure function of a balances map and the two cost
\* parameters.  It is applied here to every balances map over at most
\* OptParticipants participants with balances of at most MaxCents cents,
\* twice: once with the map iterated in ascending key order and once
\* with it iterated in any order.
OptParticipants == 4
MaxCents == 2
OptPids == 1..OptParticipants
OptBalances == UNION {[S -> -MaxCents..MaxCents] : S \in SUBSET OptPids}

\* (fixed_cost in cents, variable_cost_rate in 1/10000 per EUR): the
\* defaults of CloseCycleIn and of CloseDayIn
OptCosts == {<<0, 0>>, <<8, 35>>}

\* the orders in which a dict with the keys S can iterate
Orders(S) ==
    {o \in [1..Cardinality(S) -> S] : \A i, j \in 1..Cardinality(S) : o[i] = o[j] => i = j}
Ascending(S) == CHOOSE o \in Orders(S) : \A i, j \in 1..Cardinality(S) : i < j => o[i] < o[j]

\* one call of optimize_edges followed, when it returned, by
\* merkleish_hash over the edge rows (close_trading_day lines 192-197)
RunOf(ord, out) ==
    [done |-> TRUE, order |-> ord, err |-> out.err, edges |-> out.edges,
     hash |-> IF out.err = "none" THEN MerkleishHash(EdgeItems(out.edges)) ELSE NoHash]

requestvars == <<participants, policies, cycle, days, ledger, dayNets, transfers,
                 runs, payouts, traces, pc, loc, resp, closeResult>>

InitOpt ==
    /\ InitDb
    /\ engine = NoEngine
    /\ optimizer \in {[bal |-> b, cost |-> c, first |-> NoRun, second |-> NoRun] :
                        b \in OptBalances, c \in OptCosts}

OptimizeFirst ==
    /\ ~optimizer.first.done
    /\ \E out \in OptimizeEdges(optimizer.bal, optimizer.cost) :
          optimizer' = [optimizer EXCEPT
                          !.first = RunOf(Ascending(DOMAIN optimizer.bal), out)]
    /\ UNCHANGED <<requestvars, engine>>

OptimizeSecond ==
    /\ optimizer.first.done
    /\ ~optimizer.second.done
    /\ \E ord \in Orders(DOMAIN optimizer.bal) :
          \E out \in OptimizeEdges(optimizer.bal, optimizer.cost) :
              \* the same graph built in the same order is solved the same way
              /\ ord = optimizer.first.order => out.edges = optimizer.first.edges
              /\ optimizer' = [optimizer EXCEPT !.second = RunOf(ord, out)]
    /\ UNCHANGED <<requestvars, engine>>

NextOpt == OptimizeFirst \/ OptimizeSecond

SpecOpt == InitOpt /\ [][NextOpt]_vars

\* --------------------------------- PolicyEngine._eval_tiers on its own

\* Quantities are in kWh; tier prices are in 1/1000 ct per kWh (8 ct,
\* 10 ct and 0.015 ct); the result is in 1/10000 EUR, the quantum of
\* quantize(Decimal("0.0001")).
MaxTiers == 2
TierPrices == {8000, 10000, 15}
TierBounds == {50, 100}
Quantities == {1, 80, 130}
Tiers ==
    {[above |-> TRUE, upto_kwh |-> 0, price_ct_per_kwh |-> p] : p \in TierPrices}
    \cup {[above |-> FALSE, upto_kwh |-> u, price_ct_per_kwh |-> p] :
              u \in TierBounds, p \in TierPrices}
TierLists == UNION {[1..n -> Tiers] : n \in 0..MaxTiers}

Min(a, b) == IF a < b THEN a ELSE b
Max(a, b) == IF a > b THEN a ELSE b

\* the loop of _eval_tiers from tier i on: total_ct in 1/1000 ct
RECURSIVE TierLoop(_, _, _, _, _)
TierLoop(tiers, i, remaining, total_ct, prev_cap) ==
    IF i > Len(tiers) THEN total_ct
    ELSE LET t == tiers[i]
             qty == IF t.above THEN remaining
                    ELSE Max(0, Min(remaining, t.upto_kwh - prev_cap))
             cap == IF t.above THEN prev_cap ELSE t.upto_kwh
         IN  IF qty <= 0 THEN TierLoop(tiers, i + 1, remaining, total_ct, cap)
             ELSE IF remaining - qty <= 0 THEN total_ct + qty * t.price_ct_per_kwh
             ELSE TierLoop(tiers, i + 1, remaining - qty,
                           total_ct + qty * t.price_ct_per_kwh, cap)

\* _eval_tiers: (total_ct / 100).quantize(Decimal("0.0001"))
EvalTiers(tiers, kwh) == RoundHalfEven(TierLoop(tiers, 1, kwh, 0, 0), 10)

InitTiers ==
    /\ InitDb
    /\ optimizer = NoOptimizer
    /\ engine \in {[call |-> "tiers", done |-> FALSE, tiers |-> ts, kwh |-> q, result |-> 0] :
                     ts \in TierLists, q \in Quantities}

EvalTiersCall ==
    /\ engine.call = "tiers"
    /\ ~engine.done
    /\ engine' = [engine EXCEPT !.done = TRUE,
                                !.result = EvalTiers(engine.tiers, engine.kwh)]
    /\ UNCHANGED <<requestvars, optimizer>>

NextTiers == EvalTiersCall

SpecTiers == InitTiers /\ [][NextTiers]_vars

\* --------------------------------- PolicyEngine._parse_policy on its own

\* A policy has at most MaxRules rules.  _parse_policy only compares rule
\* ids for equality, so the rule at position i of the document is given
\* the id i; NoRule is an id that no rule has.  depends_on is a list of
\* at most two different ids.
MaxRules == 3
NoRule == 0
DependsOnLists(n) ==
    {<<>>} \cup {<<a>> : a \in 0..n}
           \cup {ab \in (0..n) \X (0..n) : ab[1] # ab[2]}
Policies ==
    UNION {[1..n -> DependsOnLists(n)] : n \in 0..MaxRules}
RulesOf(deps) == [i \in DOMAIN deps |-> [id |-> i, depends_on |-> deps[i]]]

Range(seq) == {seq[i] : i \in DOMAIN seq}

\* add_rule(rules[i]) entered with depth frames of add_rule on the stack;
\* st is (ordered, whether the recursion limit was hit); `added` is the
\* set of the ids in ordered.  An acyclic policy never nests add_rule
\* deeper than it has rules; a deeper nesting repeats a rule that is
\* still on the stack and goes on until Python raises RecursionError.
RECURSIVE AddRule(_, _, _, _)
RECURSIVE AddDeps(_, _, _, _, _)
AddRule(rules, i, st, depth) ==
    IF st.overflow THEN st
    ELSE IF depth > Len(rules) THEN [st EXCEPT !.overflow = TRUE]
    ELSE LET after == AddDeps(rules, i, 1, st, depth)
         IN  IF after.overflow \/ rules[i].id \in Range(after.ordered) THEN after
             ELSE [after EXCEPT !.ordered = Append(@, rules[i].id)]
AddDeps(rules, i, k, st, depth) ==
    IF st.overflow \/ k > Len(rules[i].depends_on) THEN st
    ELSE LET dep == rules[i].depends_on[k]
             after == IF dep \in Range(st.ordered) THEN st
                      ELSE IF \E r \in DOMAIN rules : rules[r].id = dep
                      THEN AddRule(rules, CHOOSE r \in DOMAIN rules : rules[r].id = dep,
                                   st, depth + 1)
                      ELSE st
         IN  AddDeps(rules, i, k + 1, after, depth)

RECURSIVE AddRulesFrom(_, _, _)
AddRulesFrom(rules, i, st) ==
    IF i > Len(rules) THEN st
    ELSE AddRulesFrom(rules, i + 1, AddRule(rules, i, st, 1))

\* _parse_policy that leaves the rules in the order of the document
ParsePolicyDocumentOrder(rules) ==
    [err |-> "none", order |-> [i \in DOMAIN rules |-> rules[i].id]]

\* _parse_policy: the ids of self.rules in their final order, or the
\* RecursionError that leaves no engine
ParsePolicy(rules) ==
    LET st == AddRulesFrom(rules, 1, [ordered |-> <<>>, overflow |-> FALSE])
    IN  IF st.overflow THEN [err |-> "RecursionError", order |-> <<>>]
        ELSE [err |-> "none", order |-> st.ordered]

InitRules ==
    /\ InitDb
    /\ optimizer = NoOptimizer
    /\ engine \in {[call |-> "rules", done |-> FALSE, rules |-> RulesOf(deps),
                      err |-> "", order |-> <<>>] : deps \in Policies}

ParsePolicyCall ==
    /\ engine.call = "rules"
    /\ ~engine.done
    /\ LET out == ParsePolicy(engine.rules)
       IN  engine' = [engine EXCEPT !.done = TRUE, !.err = out.err, !.order = out.order]
    /\ UNCHANGED <<requestvars, optimizer>>

NextRules == ParsePolicyCall

SpecRules == InitRules /\ [][NextRules]_vars

\* ------------------------------------------------- safe_eval on its own

\* Decimal values are exact fractions [n, d] with d > 0 in lowest terms
\* (the 28-digit rounding of an inexact quotient is not modelled).
RECURSIVE Gcd(_, _)
Gcd(a, b) == IF b = 0 THEN a ELSE Gcd(b, a % b)
Dec(n, d) ==
    LET g == Gcd(Abs(n), d)
    IN  IF n = 0 THEN [n |-> 0, d |-> 1] ELSE [n |-> n \div g, d |-> d \div g]
DecAdd(x, y) == Dec(x.n * y.d + y.n * x.d, x.d * y.d)
DecSub(x, y) == Dec(x.n * y.d - y.n * x.d, x.d * y.d)
DecMul(x, y) == Dec(x.n * y.n, x.d * y.d)
\* (left / right) if right != 0 else Decimal("0")
DecDiv(x, y) ==
    IF y.n = 0 THEN Dec(0, 1)
    ELSE IF y.n < 0 THEN Dec(-(x.n * y.d), x.d * (-y.n))
    ELSE Dec(x.n * y.d, x.d * y.n)
DecLess(x, y) == x.n * y.d < y.n * x.d
RECURSIVE Pow10(_)
Pow10(k) == IF k <= 0 THEN 1 ELSE 10 * Pow10(k - 1)
\* int(x): truncation towards zero
DecInt(x) == IF x.n < 0 THEN -((-x.n) \div x.d) ELSE x.n \div x.d
\* x.quantize(Decimal("1").scaleb(-k), rounding=ROUND_HALF_UP)
DecQuantize(x, k) ==
    IF k >= 0 THEN Dec(RoundHalfUp(x.n * Pow10(k), x.d), Pow10(k))
    ELSE Dec(RoundHalfUp(x.n, x.d * Pow10(-k)) * Pow10(-k), 1)
RECURSIVE DecMin(_)
DecMin(vals) ==
    IF Len(vals) = 1 THEN vals[1]
    ELSE LET m == DecMin(Tail(vals)) IN IF DecLess(m, vals[1]) THEN m ELSE vals[1]
RECURSIVE DecMax(_)
DecMax(vals) ==
    IF Len(vals) = 1 THEN vals[1]
    ELSE LET m == DecMax(Tail(vals)) IN IF DecLess(vals[1], m) THEN m ELSE vals[1]

AllowedNames == {"kwh", "price_ct_per_kwh", "feedin_ct_per_kwh", "amount_eur_prev",
                 "base_sum", "percent", "value", "qty"}
AllowedFuncs == {"min", "max", "round"}

\* A node of the tree ast.parse returns: its class, a tag (the operator
\* class, the identifier, the attribute or the type of the constant),
\* the value of a constant, and its children: func (none or one), args
\* (operands or positional arguments) and keywords (the values of the
\* keyword arguments of a call).
Node(class, tag, val, func, args, keywords) ==
    [node |-> class, tag |-> tag, val |-> val, func |-> func, args |-> args,
     keywords |-> keywords]
Leaf(class, tag, val) == Node(class, tag, val, <<>>, <<>>, <<>>)
Name(id) == Leaf("Name", id, Dec(0, 1))

\* the constants 2, 2.5, "5", "abc" and None; the names kwh and os; a
\* comparison, standing for the node classes without a visit_ method
Leaves ==
    {Leaf("Constant", "int", Dec(2, 1)), Leaf("Constant", "float", Dec(5, 2)),
     Leaf("Constant", "str", Dec(5, 1)), Leaf("Constant", "str", Dec(-1, 1)),
     Leaf("Constant", "NoneType", Dec(0, 1)),
     Name("kwh"), Name("os"), Leaf("Compare", "", Dec(0, 1))}
\* a str constant that Decimal() cannot read carries the value -1
NotNumeric(node) == node.tag = "str" /\ node.val.n < 0

BinOps == {"Add", "Sub", "Mult", "Div", "Pow"}
UnaryOps == {"USub", "UAdd", "Not"}
Callees == {Name("min"), Name("max"), Name("round"), Name("eval"),
            Node("Attribute", "system", Dec(0, 1), <<>>, <<Name("os")>>, <<>>)}
KeywordValues == {Name("os"), Leaf("Constant", "int", Dec(2, 1))}

MaxDepth == 1
RECURSIVE Exprs(_)
Exprs(depth) ==
    IF depth = 0 THEN Leaves
    ELSE LET S == Exprs(depth - 1)
         IN  S \cup {Node("BinOp", op, Dec(0, 1), <<>>, <<l, r>>, <<>>) :
                        op \in BinOps, l \in S, r \in S}
               \cup {Node("UnaryOp", op, Dec(0, 1), <<>>, <<x>>, <<>>) :
                        op \in UnaryOps, x \in S}
               \cup {Node("Attribute", "real", Dec(0, 1), <<>>, <<x>>, <<>>) : x \in S}
               \cup {Node("Call", "", Dec(0, 1), <<f>>, a, k) :
                        f \in Callees,
                        a \in UNION {[1..n -> S] : n \in 0..2},
                        k \in {<<>>} \cup {<<v>> : v \in KeywordValues}}

\* the variables handed to safe_eval
Variables == [kwh |-> Dec(2, 1)]

Raise(msg) == [ok |-> FALSE, err |-> msg, val |-> Dec(0, 1)]
Return(v) == [ok |-> TRUE, err |-> "", val |-> v]
FirstError(results) ==
    results[CHOOSE i \in DOMAIN results :
              ~results[i].ok /\ \A j \in 1..(i - 1) : results[j].ok]

\* SafeEvaluator.visit: the value of the node, or the ValueError raised
RECURSIVE Visit(_)
Visit(node) ==
    CASE node.node = "Constant" ->
           IF node.tag \in {"int", "float", "str"}
           THEN IF NotNumeric(node) THEN Raise("constant not numeric")
                ELSE Return(node.val)
           ELSE Raise("constant type not allowed")
      [] node.node = "Name" ->
           IF node.tag \notin AllowedNames THEN Raise("name not allowed")
           ELSE IF node.tag \in DOMAIN Variables THEN Return(Variables[node.tag])
           ELSE Return(Dec(0, 1))
      [] node.node = "BinOp" ->
           LET left == Visit(node.args[1])
               right == Visit(node.args[2])
           IN  IF ~left.ok THEN left
               ELSE IF ~right.ok THEN right
               ELSE IF node.tag = "Add" THEN Return(DecAdd(left.val, right.val))
               ELSE IF node.tag = "Sub" THEN Return(DecSub(left.val, right.val))
               ELSE IF node.tag = "Mult" THEN Return(DecMul(left.val, right.val))
               ELSE IF node.tag = "Div" THEN Return(DecDiv(left.val, right.val))
               ELSE Raise("Operator not allowed")
      [] node.node = "UnaryOp" ->
           LET val == Visit(node.args[1])
           IN  IF ~val.ok THEN val
               ELSE IF node.tag = "USub" THEN Return(DecSub(Dec(0, 1), val.val))
               ELSE IF node.tag = "UAdd" THEN Return(val.val)
               ELSE Raise("Unary op not allowed")
      [] node.node = "Call" ->
           IF node.func[1].node # "Name" \/ node.func[1].tag \notin AllowedFuncs
           THEN Raise("function not allowed")
           ELSE LET results == [i \in DOMAIN node.args |-> Visit(node.args[i])]
                    args == [i \in DOMAIN node.args |-> results[i].val]
                    id == node.func[1].tag
                IN  IF \E i \in DOMAIN results : ~results[i].ok THEN FirstError(results)
                    ELSE IF id \in {"min", "max"} /\ Len(args) = 0
                    THEN Raise("arg is an empty sequence")
                    ELSE IF id = "min" THEN Return(DecMin(args))
                    ELSE IF id = "max" THEN Return(DecMax(args))
                    ELSE IF Len(args) = 1 THEN Return(DecQuantize(args[1], 0))
                    ELSE IF Len(args) = 2
                    THEN Return(DecQuantize(args[1], DecInt(args[2])))
                    ELSE Raise("bad round args")
      [] OTHER -> Raise("expression not allowed")

\* safe_eval
SafeEval(expr) == Visit(expr)

InitSandbox ==
    /\ InitDb
    /\ optimizer = NoOptimizer
    /\ engine \in {[call |-> "expr", done |-> FALSE, expr |-> e,
                      result |-> Raise("")] : e \in Exprs(MaxDepth)}

SafeEvalCall ==
    /\ engine.call = "expr"
    /\ ~engine.done
    /\ engine' = [engine EXCEPT !.done = TRUE, !.result = SafeEval(engine.expr)]
    /\ UNCHANGED <<requestvars, optimizer>>

NextSandbox == SafeEvalCall

SpecSandbox == InitSandbox /\ [][NextSandbox]_vars

\* ------------------------------------------- evaluate_event on its own

\* Decimal.quantize(Decimal("1").scaleb(-k)) with the context's default
\* ROUND_HALF_EVEN, and abs()
DecQuantizeEven(x, k) == Dec(RoundHalfEven(x.n * Pow10(k), x.d), Pow10(k))
DecAbs(x) == Dec(Abs(x.n), x.d)

\* The event has meta.kwh = 2 (Variables).  A rule of the engine is given
\* by its kind, by whether applies() holds of it for the event, and by
\* the fields its kind reads; its id is its position in self.rules.
MaxEventRules == 2
Constant(n) == Leaf("Constant", "int", Dec(n, 1))
BinOp(op, l, r) == Node("BinOp", op, Dec(0, 1), <<>>, <<l, r>>, <<>>)
\* rate_expr: "kwh / 200", "kwh / 3", and "kwh * os", which safe_eval rejects
RateExprs == {BinOp("Div", Name("kwh"), Constant(200)),
              BinOp("Div", Name("kwh"), Constant(3)),
              BinOp("Mult", Name("kwh"), Name("os"))}
Rule(kind, applies, rate_expr, sign, account, operator) ==
    [kind |-> kind, applies |-> applies, rate_expr |-> rate_expr,
     tiers |-> <<[above |-> TRUE, upto_kwh |-> 0, price_ct_per_kwh |-> 8000]>>,
     base_account |-> "energy", accounts |-> {"energy", "fee"}, percent |-> Dec(10, 1),
     out |-> [account |-> account, sign |-> sign], beneficiary_operator |-> operator]
EventRules ==
    {Rule("rate", a, e, s, "energy", FALSE) :
         a \in BOOLEAN, e \in RateExprs, s \in {"+", "-"}}
    \cup {Rule("tiered_cap", TRUE, Constant(0), "-", "energy", FALSE),
          Rule("percent_of_account", TRUE, Constant(0), "+", "fee", TRUE),
          Rule("percent_over_sum_accounts", TRUE, Constant(0), "+", "fee", TRUE),
          Rule("bonus", TRUE, Constant(0), "+", "fee", FALSE)}
EventRuleLists == UNION {[1..n -> EventRules] : n \in 0..MaxEventRules}

\* accounts.get(name, Decimal("0.00"))
AccountGet(accounts, name) ==
    IF name \in DOMAIN accounts THEN accounts[name] ELSE Dec(0, 1)
RECURSIVE DecSum(_, _)
DecSum(f, S) ==
    IF S = {} THEN Dec(0, 1)
    ELSE LET x == CHOOSE y \in S : TRUE IN DecAdd(f[x], DecSum(f, S \ {x}))
\* _sum_accounts
SumAccounts(accounts, names) ==
    DecSum([n \in names |-> AccountGet(accounts, n)], names)

\* the amount of a rule of one of the four kinds: a Decimal, or the
\* ValueError safe_eval raised
RuleAmount(rule, accounts) ==
    CASE rule.kind = "rate" -> SafeEval(rule.rate_expr)
      [] rule.kind = "tiered_cap" ->
           Return(Dec(EvalTiers(rule.tiers, DecInt(Variables.kwh)), 10000))
      [] rule.kind = "percent_of_account" ->
           Return(DecQuantizeEven(
               DecMul(DecAbs(AccountGet(accounts, rule.base_account)),
                      DecDiv(rule.percent, Dec(100, 1))), 4))
      [] rule.kind = "percent_over_sum_accounts" ->
           Return(DecQuantizeEven(
               DecMul(DecAbs(SumAccounts(accounts, rule.accounts)),
                      DecDiv(rule.percent, Dec(100, 1))), 4))

\* _accounts_to_ledger
AccountsToLedger(accounts) ==
    {[account |-> k, amount_eur |-> accounts[k]] : k \in DOMAIN accounts}

\* what evaluate_event gives: (postings, trace), or the exception it raises
Raised(msg) ==
    [raised |-> TRUE, err |-> msg, postings |-> {}, evaluations |-> <<>>,
     sum_event_eur |-> Dec(0, 1)]
Returned(accounts, evals) ==
    [raised |-> FALSE, err |-> "", postings |-> AccountsToLedger(accounts),
     evaluations |-> evals,
     sum_event_eur |-> DecQuantizeEven(DecSum(accounts, DOMAIN accounts), 2)]
Evaluation(id, matched, result, beneficiary) ==
    [rule_id |-> id, matched |-> matched, result_eur |-> result,
     beneficiary |-> beneficiary]

\* the loop of evaluate_event from rule i on
RECURSIVE EvaluateLoop(_, _, _, _, _)
EvaluateLoop(rules, i, accounts, evals, operator_id) ==
    IF i > Len(rules) THEN Returned(accounts, evals)
    ELSE LET rule == rules[i]
             next(acc, e) == EvaluateLoop(rules, i + 1, acc, Append(evals, e), operator_id)
         IN  IF ~rule.applies
             THEN next(accounts, Evaluation(i, FALSE, Dec(0, 1), "None"))
             ELSE IF rule.kind \notin {"rate", "tiered_cap", "percent_of_account",
                                      "percent_over_sum_accounts"}
             THEN next(accounts, Evaluation(i, TRUE, Dec(0, 1), "None"))
             ELSE LET amount == RuleAmount(rule, accounts)
                      beneficiary == IF rule.beneficiary_operator /\ operator_id # 0
                                     THEN "OPERATOR" ELSE "None"
                      signed_amount == IF rule.out.sign = "+" THEN amount.val
                                       ELSE DecSub(Dec(0, 1), amount.val)
                      account == rule.out.account
                      acc == [a \in DOMAIN accounts \cup {account} |->
                                IF a = account
                                THEN DecAdd(AccountGet(accounts, a), signed_amount)
                                ELSE accounts[a]]
                  IN  IF ~amount.ok THEN Raised(amount.err)
                      ELSE next(acc, Evaluation(i, TRUE,
                                                DecQuantizeEven(signed_amount, 2),
                                                beneficiary))

\* evaluate_event
EvaluateEvent(rules, operator_id) == EvaluateLoop(rules, 1, EmptyMap, <<>>, operator_id)

InitEvent ==
    /\ InitDb
    /\ optimizer = NoOptimizer
    /\ engine \in {[call |-> "event", done |-> FALSE, rules |-> rs, operator_id |-> op,
                      out |-> Raised("")] : rs \in EventRuleLists, op \in 0..1}

EvaluateEventCall ==
    /\ engine.call = "event"
    /\ ~engine.done
    /\ engine' = [engine EXCEPT !.done = TRUE,
                     !.out = EvaluateEvent(engine.rules, engine.operator_id)]
    /\ UNCHANGED <<requestvars, optimizer>>

NextEvent == EvaluateEventCall

SpecEvent == InitEvent /\ [][NextEvent]_vars

\* -------------------------------------- events with policy evaluation

\* The policy documents posted with set_policy: the one with
\* operator_fee_pct 0 has one rate rule, "kwh / 200", credited to the
\* operator; the other one has a rate rule and a second rate rule whose
\* expression safe_eval rejects.
PolicyRules(pct) ==
    IF pct = 0
    THEN <<Rule("rate", TRUE, BinOp("Div", Name("kwh"), Constant(200)), "+", "energy", TRUE)>>
    ELSE <<Rule("rate", TRUE, BinOp("Div", Name("kwh"), Constant(200)), "-", "energy", FALSE),
           Rule("rate", TRUE, BinOp("Mult", Name("kwh"), Name("os")), "-", "energy", FALSE)>>

\* the policy of the request: the version it names or, when it names
\* none (""), the row with the greatest id; "" when there is no such row
PolicyChoices(pv) ==
    LET stored == {v \in PolicyVersions : policies[v] # NoPolicy}
    IN  IF pv # "" THEN (IF pv \in stored THEN {pv} ELSE {""})
        ELSE IF stored = {} THEN {""} ELSE stored

\* Decimal(result_eur) of a trace entry as an amount in 1/10000 EUR
ResultAmount(x) == x.n * (10000 \div x.d)

\* lines 108-130: the ledger lines <<participant, amount>> to create, one
\* per matched evaluation with a non-zero result, in trace order
LedgerLines(evals, part, operator_id) ==
    LET kept == SelectSeq(evals, LAMBDA e : e.matched /\ e.result_eur.n # 0)
    IN  [i \in DOMAIN kept |->
            <<IF kept[i].beneficiary = "OPERATOR" /\ operator_id # 0
              THEN operator_id ELSE part,
              ResultAmount(kept[i].result_eur)>>]

\* ingest_event_and_eval without the test of the cycle's status
IngestEvalBeginAnyCycle(w, ext, amt, d, pv) ==
    /\ pc[w] = "idle"
    /\ BagCardinality(ledger) + 1 < MaxLedger
    /\ cycle' = GetOrCreateCycle(cycle)
    /\ IF ext > Len(participants)
       THEN /\ Finish(w, Response("ingest_event_and_eval", 404, "Participant not found"))
            /\ UNCHANGED ledger
       ELSE /\ ledger' = ledger (+) SetToBag({<<ext, amt, d>>})
            /\ Goto(w, "ie_eval", [NoLoc EXCEPT !.date = d, !.pv = pv, !.part = ext])
    /\ UNCHANGED <<participants, policies, days, dayNets, transfers, runs,
                   payouts, closeResult>>

\* ingest_event_and_eval, lines 71-79: the checks and the raw ledger entry
IngestEvalBegin(w, ext, amt, d, pv) ==
    /\ pc[w] = "idle"
    /\ BagCardinality(ledger) + 1 < MaxLedger
    /\ cycle' = GetOrCreateCycle(cycle)
    /\ IF cycle' # "open"
       THEN /\ Finish(w, Response("ingest_event_and_eval", 400, "Cycle is closed"))
            /\ UNCHANGED ledger
       ELSE IF ext > Len(participants)
       THEN /\ Finish(w, Response("ingest_event_and_eval", 404, "Participant not found"))
            /\ UNCHANGED ledger
       ELSE /\ ledger' = ledger (+) SetToBag({<<ext, amt, d>>})
            /\ Goto(w, "ie_eval", [NoLoc EXCEPT !.date = d, !.pv = pv, !.part = ext])
    /\ UNCHANGED <<participants, policies, days, dayNets, transfers, runs,
                   payouts, closeResult>>

\* lines 81-111: the policy and the operator are looked up and the event
\* is evaluated; an exception of evaluate_event ends the request
IngestEvalPolicy(w) ==
    /\ pc[w] = "ie_eval"
    /\ \E v \in PolicyChoices(loc[w].pv), op \in OperatorChoices :
         IF v = ""
         THEN Finish(w, [Response("ingest_event_and_eval", 200,
                                  "no policy set, raw event stored")
                            EXCEPT !.date = loc[w].date])
         ELSE LET out == EvaluateEvent(PolicyRules(policies[v]), op)
              IN  IF out.raised
                  THEN Finish(w, Response("ingest_event_and_eval", 500, out.err))
                  ELSE Goto(w, "ie_lines",
                            [loc[w] EXCEPT !.lines =
                                LedgerLines(out.evaluations, loc[w].part, op)])
    /\ UNCHANGED <<participants, policies, cycle, days, ledger, dayNets, transfers,
                   runs, payouts, closeResult>>

\* lines 112-130: add_ledger_entry for the next line, with its commit
IngestEvalLine(w) ==
    /\ pc[w] = "ie_lines"
    /\ loc[w].lines # <<>>
    /\ ledger' = ledger (+) SetToBag({<<Head(loc[w].lines)[1], Head(loc[w].lines)[2],
                                        loc[w].date>>})
    /\ Goto(w, "ie_lines", [loc[w] EXCEPT !.lines = Tail(@)])
    /\ UNCHANGED <<participants, policies, cycle, days, dayNets, transfers, runs,
                   payouts, closeResult>>

\* lines 132-150: the ExplainTrace row and the response
IngestEvalTrace(w) ==
    /\ pc[w] = "ie_lines"
    /\ loc[w].lines = <<>>
    /\ traces' = traces (+) SetToBag({<<loc[w].part, loc[w].date>>})
    /\ Reply(w, [Response("ingest_event_and_eval", 200, "ok") EXCEPT !.date = loc[w].date])
    /\ UNCHANGED <<participants, policies, cycle, days, ledger, dayNets, transfers,
                   runs, payouts, closeResult>>

\* --------------------------------------------------------- behaviours

Request(w) ==
    \/ \E ext \in Pids, role \in Roles : CreateParticipant(w, ext, role)
    \/ \E v \in PolicyVersions, pct \in FeePcts : SetPolicy(w, v, pct)
    \/ \E ext \in Pids, amt \in Amounts, d \in Dates : IngestEvent(w, ext, amt, d)
    \/ \E ext \in Pids, amt \in Amounts, d \in Dates, pv \in PolicyVersions \cup {""} :
          IngestEvalBegin(w, ext, amt, d, pv)
    \/ IngestEvalPolicy(w)
    \/ IngestEvalLine(w)
    \/ IngestEvalTrace(w)
    \/ \E d \in Dates, pv \in PolicyVersions, cost \in CostModels : CloseDayBegin(w, d, pv, cost)
    \/ CloseDayGetDay(w)
    \/ CloseDayNets(w)
    \/ CloseDayEdges(w)
    \/ CloseDayFlip(w)
    \/ \E pv \in PolicyVersions, cost \in CostModels : CloseCycleBegin(w, pv, cost)
    \/ CloseCycleRun(w)
    \/ CloseCyclePayouts(w)
    \/ CloseCycleSummary(w)
    \/ CloseCycleFlip(w)

\* Requests are served concurrently (FastAPI runs the handlers in a thread
\* pool, each with its own session); they interleave at their commits.
Next == \E w \in Workers : Request(w)

Spec == Init /\ [][Next]_vars

\* Requests are served one after the other, and the process serving a
\* request may die between two commits.
Alone(w) == \A x \in Workers \ {w} : pc[x] = "idle"

NextSeq ==
    \E w \in Workers :
        \/ Alone(w) /\ \E ext \in Pids, role \in Roles : CreateParticipant(w, ext, role)
        \/ Alone(w) /\ \E v \in PolicyVersions, pct \in FeePcts : SetPolicy(w, v, pct)
        \/ Alone(w) /\ \E ext \in Pids, amt \in Amounts, d \in Dates : IngestEvent(w, ext, amt, d)
        \/ Alone(w) /\ \E ext \in Pids, amt \in Amounts, d \in Dates, pv \in PolicyVersions \cup {""} :
                          IngestEvalBegin(w, ext, amt, d, pv)
        \/ Alone(w) /\ IngestEvalPolicy(w)
        \/ Alone(w) /\ IngestEvalLine(w)
        \/ Alone(w) /\ IngestEvalTrace(w)
        \/ Alone(w) /\ \E d \in Dates, pv \in PolicyVersions, cost \in CostModels : CloseDayBegin(w, d, pv, cost)
        \/ Alone(w) /\ CloseDayGetDay(w)
        \/ Alone(w) /\ CloseDayNets(w)
        \/ Alone(w) /\ CloseDayEdges(w)
        \/ Alone(w) /\ CloseDayFlip(w)
        \/ Alone(w) /\ \E pv \in PolicyVersions, cost \in CostModels : CloseCycleBegin(w, pv, cost)
        \/ Alone(w) /\ CloseCycleRun(w)
        \/ Alone(w) /\ CloseCyclePayouts(w)
        \/ Alone(w) /\ CloseCycleSummary(w)
        \/ Alone(w) /\ CloseCycleFlip(w)
        \/ Alone(w) /\ Crash(w)

SpecSeq == Init /\ [][NextSeq]_vars

\* ---------------------------------------- _apply_operator_fee on its own

\* The fee pass is applied to every balances map (in cents) over at most
\* FeeParticipants participants, with no operator (0), an operator that
\* is a key of the map or one that is not, and operator_fee_pct 0, 0.25
\* or 0.5 (floats that Decimal(pct) converts exactly), written in %.
FeeParticipants == 3
FeePids == 1..FeeParticipants
FeeCents == {-3, 0, 1, 3, 5}
FeeBalances == UNION {[S -> FeeCents] : S \in SUBSET FeePids}
FeeFactors == {0, 25, 50}

\* given: the map handed in; balances: the same dict after the call
\* (line 92 copies it before the loop); updated: the map returned
InitFee ==
    /\ InitDb
    /\ optimizer = NoOptimizer
    /\ engine \in {[call |-> "fee", done |-> FALSE, given |-> b, balances |-> b,
                      operator_id |-> op, pct |-> f, updated |-> EmptyMap] :
                     b \in FeeBalances, op \in 0..FeeParticipants, f \in FeeFactors}

ApplyOperatorFeeCall ==
    /\ engine.call = "fee"
    /\ ~engine.done
    /\ engine' = [engine EXCEPT !.done = TRUE,
                     !.updated = ApplyOperatorFee(engine.balances, engine.operator_id,
                                                  engine.pct)]
    /\ UNCHANGED <<requestvars, optimizer>>

NextFee == ApplyOperatorFeeCall

SpecFee == InitFee /\ [][NextFee]_vars

\* ------------------------------------------------------------- claims

ClosedDays == {d \in Dates : days[d] = "closed"}
AllIdle == \A w \in Workers : pc[w] = "idle"

\* C1: re-close is idempotent.  A close_day request that ends on a day
\* that was already closed creates no DayNet and no InternalTransfer row
\* and returns status 200 with the nets and the audit hash that the close
\* which closed the day returned.
C1_RecloseIdempotent ==
    [][(resp'.op = "close_day" /\ resp'.date \in ClosedDays) =>
          /\ dayNets' = dayNets
          /\ transfers' = transfers
          /\ resp'.status = 200
          /\ resp'.nets = closeResult[resp'.date].nets
          /\ resp'.hash = closeResult[resp'.date].hash]_vars

\* a worker takes a close_cycle request in this step
CloseCycleCalled(w) ==
    pc[w] = "idle" /\ (pc'[w] = "cc_run" \/ resp'.op = "close_cycle")

\* C2: close_cycle invoked while a TradingDay of the cycle is open fails
\* with status 400 and the number of open days, and changes neither the
\* cycle status nor the SettlementRun and PayoutInstruction rows.
C2_OpenDaysRejected ==
    [][\A w \in Workers :
          (CloseCycleCalled(w) /\ \E d \in Dates : days[d] = "open") =>
             /\ resp'.op = "close_cycle"
             /\ resp'.status = 400
             /\ resp'.detail = "trading day(s) still open"
             /\ resp'.n = Cardinality({d \in Dates : days[d] = "open"})
             /\ cycle' = cycle
             /\ runs' = runs
             /\ payouts' = payouts]_vars

\* C2 witness: a close_cycle was refused because of an open day
C2_Witness ==
    /\ resp.op = "close_cycle"
    /\ resp.status = 400
    /\ resp.n >= 1
    /\ \E d \in Dates : days[d] = "open"

\* C3: a BillingCycle with status closed has no TradingDay with status
\* open, in every state reached by interleaved requests.
C3_ClosedCycleHasNoOpenDay ==
    cycle = "closed" => \A d \in Dates : days[d] # "open"

\* C4: closed is terminal.  No step takes a closed TradingDay or a closed
\* BillingCycle to another status.
C4_ClosedIsTerminal ==
    [][/\ cycle = "closed" => cycle' = "closed"
       /\ \A d \in Dates : days[d] = "closed" => days'[d] = "closed"]_vars

\* C4 witness: a close_day request arrived for a closed day of a closed cycle
C4_Witness ==
    /\ cycle = "closed"
    /\ resp.op = "close_day"
    /\ resp.date \in ClosedDays

\* C5: a close_cycle request whose preconditions held and whose balances
\* the optimizer settled ends with status 200, a SettlementRun summary
\* holding participant count, payout count, audit hash and cost model, and
\* the cycle closed.
C5_CloseCycleSucceeds ==
    [][\A w \in Workers :
          (/\ pc[w] \in {"cc_payouts", "cc_summary", "cc_flip"}
           /\ pc'[w] = "idle"
           /\ resp'.detail # "crashed") =>
             /\ resp'.status = 200
             /\ cycle' = "closed"
             /\ runs'[loc[w].run].summary =
                  [participants |-> Cardinality(DOMAIN loc[w].bal),
                   payout_count |-> Cardinality(loc[w].edges),
                   audit_hash |-> [err |-> FALSE, digest |-> PayoutItems(loc[w].edges)],
                   cost_model |-> loc[w].cost]]_vars

\* C6: a close that fails is all-or-nothing.  When close_day or close_cycle
\* ends with an error, none of the DayNet rows that request computed and
\* no SettlementRun that request created is persisted.
C6_FailedCloseWritesNothing ==
    [][\A w \in Workers :
          (pc[w] # "idle" /\ pc'[w] = "idle" /\ resp'.status = 500) =>
             /\ \A p \in DOMAIN loc[w].bal :
                   ~BagIn(<<loc[w].date, p, loc[w].bal[p]>>, dayNets')
             /\ loc[w].run = 0]_vars

\* C7: day close is atomic with respect to a crash.  After a crash every
\* TradingDay is either not closed with no DayNet and no InternalTransfer
\* row, or closed with exactly the DayNets and InternalTransfers of the
\* close that closed it.
C7_DayCloseAtomic ==
    resp.detail = "crashed" =>
        \A d \in Dates :
            IF days[d] = "closed"
            THEN /\ ReadBackNets(d) = closeResult[d].nets
                 /\ ReadBackEdges(d) = closeResult[d].hash.digest
            ELSE RowsOf(dayNets, d) = {} /\ RowsOf(transfers, d) = {}

\* C8: two concurrent close_day requests for one day leave the persisted
\* state of a single close.  A request that completes a close (flips the
\* day) after persisting DayNet rows does so on a day no other request has
\* closed in the meantime.
C8_ConcurrentCloseAsSingle ==
    [][\A w \in Workers :
          (pc[w] = "cd_flip" /\ pc'[w] = "idle") =>
             ~(days[loc[w].date] = "closed" /\ DOMAIN loc[w].bal # {})]_vars

\* number of DayNet rows of day d and participant p
DayNetRowCount(d, p) ==
    LET rows == {r \in RowsOf(dayNets, d) : r[2] = p}
    IN  SumOver([r \in rows |-> CopiesIn(r, dayNets)], rows)

\* C9: each closed TradingDay holds exactly one DayNet row per participant
\* that had a balance at its close, and no row for anyone else.
C9_OneDayNetPerParticipant ==
    \A d \in ClosedDays :
        \A p \in Pids :
            DayNetRowCount(d, p) =
                IF \E x \in BagToSet(closeResult[d].nets) : x[1] = p THEN 1 ELSE 0

\* C10: day closure is a durable checkpoint.  Ingesting a ledger entry
\* dated in a closed day changes neither the DayNets nor the month
\* balances, and the balances a settlement optimizes are the operator-fee
\* pass of the per-participant sums of the DayNets of the closed days.
C10_DayCloseIsCheckpoint ==
    [][/\ (resp'.op = "ingest_event" /\ resp'.status = 200
              /\ resp'.date \in ClosedDays) =>
             /\ ledger' # ledger
             /\ dayNets' = dayNets
             /\ ComputeMonthBalances(dayNets', {d \in Dates : days'[d] = "closed"})
                  = ComputeMonthBalances(dayNets, ClosedDays)
       /\ \A w \in Workers :
             (pc[w] = "cc_run" /\ pc'[w] = "cc_payouts") =>
                \E op \in OperatorChoices :
                    loc'[w].bal = ApplyOperatorFee(
                        ComputeMonthBalances(dayNets, ClosedDays), op,
                        policies[loc[w].pv])]_vars

\* C10 witness: an entry was ingested for a day that is closed and has
\* DayNet rows
C10_Witness ==
    /\ resp.op = "ingest_event"
    /\ resp.status = 200
    /\ resp.date \in ClosedDays
    /\ RowsOf(dayNets, resp.date) # {}
    /\ \E r \in BagToSet(ledger) : r[3] = resp.date

\* C16: a set_policy naming a version that is already stored is rejected
\* with 409 and leaves the policies as they are, and no step of any
\* operation changes the data stored under a version.
C16_PolicyImmutable ==
    [][/\ \A v \in PolicyVersions :
            policies[v] # NoPolicy => policies'[v] = policies[v]
       /\ \A w \in Workers, v \in PolicyVersions, pct \in FeePcts :
            (SetPolicy(w, v, pct) /\ policies[v] # NoPolicy)
            => resp'.status = 409 /\ policies' = policies]_vars
C16_Witness ==
    /\ resp.op = "set_policy"
    /\ resp.status = 409
    /\ \E v \in PolicyVersions : policies[v] # NoPolicy

\* ------------------------------------------------- claims on optimize_edges

TransferSum(edges) == SumOver([e \in edges |-> e[3]], edges)
SentBy(edges, d) == TransferSum({e \in edges : e[1] = d})
ReceivedBy(edges, c) == TransferSum({e \in edges : e[2] = c})

\* C11: for a balances map with exactly one debtor at -x and one creditor
\* at +x, whatever the cost parameters, optimize_edges returns exactly one
\* transfer, from the debtor to the creditor, of amount x.
C11_MinimalCase ==
    \A d, c \in OptPids :
        (/\ optimizer.first.done
         /\ Debtors(optimizer.bal) = {d}
         /\ Creditors(optimizer.bal) = {c}
         /\ optimizer.bal[c] = -optimizer.bal[d])
        => /\ optimizer.first.err = "none"
           /\ optimizer.first.edges = {<<d, c, optimizer.bal[c]>>}

\* C12: for a balances map whose total debt and total credit agree within
\* one cent, optimize_edges returns transfers that take from no debtor
\* more than its debt and give to no creditor more than its credit, and
\* whose total is within one cent of the total debt and of the total
\* credit, whatever the cost parameters.
C12_Conservation ==
    (optimizer.first.done /\ Abs(TotalDebt(optimizer.bal) - TotalCredit(optimizer.bal)) <= 1)
    => /\ optimizer.first.err = "none"
       /\ \A d \in Debtors(optimizer.bal) :
             SentBy(optimizer.first.edges, d) <= -optimizer.bal[d]
       /\ \A c \in Creditors(optimizer.bal) :
             ReceivedBy(optimizer.first.edges, c) <= optimizer.bal[c]
       /\ Abs(TransferSum(optimizer.first.edges) - TotalDebt(optimizer.bal)) <= 1
       /\ Abs(TransferSum(optimizer.first.edges) - TotalCredit(optimizer.bal)) <= 1

\* C13: optimize_edges fails with the imbalance error exactly when total
\* debt and total credit, in cents, differ by more than one; when they
\* differ by zero or by one, in either direction, it returns a transfer
\* list.
C13_ImbalanceExact ==
    optimizer.first.done
    => /\ optimizer.first.err = "imbalance"
            <=> Abs(TotalDebt(optimizer.bal) - TotalCredit(optimizer.bal)) > 1
       /\ Abs(TotalDebt(optimizer.bal) - TotalCredit(optimizer.bal)) <= 1
            => optimizer.first.err = "none"

\* the transfer sets that settle every balance to zero, and the cost of a
\* transfer set in 1/10000 cent: the fixed cost once per pair used plus
\* the variable rate times the amount moved
SettlingSets(bal) ==
    {t \in [Debtors(bal) \X Creditors(bal) -> 0..MaxCents] :
        /\ \A d \in Debtors(bal) :
              SumOver([c \in Creditors(bal) |-> t[<<d, c>>]], Creditors(bal)) = -bal[d]
        /\ \A c \in Creditors(bal) :
              SumOver([d \in Debtors(bal) |-> t[<<d, c>>]], Debtors(bal)) = bal[c]}
SettlingCost(t, cost) ==
    cost[1] * 10000 * Cardinality({e \in DOMAIN t : t[e] > 0})
    + cost[2] * SumOver(t, DOMAIN t)
TransferCost(edges, cost) ==
    cost[1] * 10000 * Cardinality({<<e[1], e[2]>> : e \in edges})
    + cost[2] * TransferSum(edges)

\* C14: for a balanced balances map, the transfers optimize_edges returns
\* cost no more than any transfer set that settles every balance to zero.
C14_Optimality ==
    (/\ optimizer.first.done
     /\ optimizer.first.err = "none"
     /\ TotalDebt(optimizer.bal) = TotalCredit(optimizer.bal))
    => \A t \in SettlingSets(optimizer.bal) :
          TransferCost(optimizer.first.edges, optimizer.cost)
              <= SettlingCost(t, optimizer.cost)

\* C15: two runs of the optimizer on the same balances and cost
\* parameters, the balances map iterated in different orders, return the
\* same transfer set and the same audit hash.
C15_Determinism ==
    optimizer.second.done
    => /\ optimizer.second.edges = optimizer.first.edges
       /\ optimizer.second.hash = optimizer.first.hash

\* ----------------------------------------- claims on the policy engine

\* the capped tiers before tier i in ascending order of bound (ties in
\* list order), and the share of the quantity q that tier i takes when
\* the tiers are filled in that order, the first open tier taking the rest
TierBefore(tiers, j, i) ==
    /\ ~tiers[j].above
    /\ \/ tiers[j].upto_kwh < tiers[i].upto_kwh
       \/ tiers[j].upto_kwh = tiers[i].upto_kwh /\ j < i
RECURSIVE MaxOf(_)
MaxOf(S) ==
    IF S = {} THEN 0
    ELSE LET x == CHOOSE y \in S : TRUE
             m == MaxOf(S \ {x})
         IN  IF x > m THEN x ELSE m
TierShare(tiers, i, q) ==
    LET capped == {j \in DOMAIN tiers : ~tiers[j].above}
        open == {j \in DOMAIN tiers : tiers[j].above}
        top == MaxOf({tiers[j].upto_kwh : j \in capped})
        prev == MaxOf({tiers[j].upto_kwh : j \in {k \in capped : TierBefore(tiers, k, i)}})
    IN  IF tiers[i].above
        THEN IF \A j \in open : i <= j THEN Max(0, q - top) ELSE 0
        ELSE Max(0, Min(q, tiers[i].upto_kwh) - Min(q, prev))

\* C17: for every tier list and quantity, tiered_cap returns the sum over
\* the tiers of (the tier's share when the tiers are filled in ascending
\* order of their bound, whatever the order of the list) times the tier's
\* price, divided by 100.
C17_TieredAscending ==
    (engine.call = "tiers" /\ engine.done)
    => engine.result =
         RoundHalfEven(
           SumOver([i \in DOMAIN engine.tiers |->
                      TierShare(engine.tiers, i, engine.kwh)
                        * engine.tiers[i].price_ct_per_kwh],
                   DOMAIN engine.tiers), 10)

\* the rules a rule depends on, directly or through other rules
RECURSIVE DependsOnVia(_, _, _)
DependsOnVia(rules, seen, frontier) ==
    IF frontier = {} THEN seen
    ELSE LET next == UNION {Range(rules[i].depends_on) \cap DOMAIN rules : i \in frontier}
         IN  DependsOnVia(rules, seen \cup next, next \ seen)
Dependencies(rules, i) == DependsOnVia(rules, {}, {i})
Acyclic(rules) == \A i \in DOMAIN rules : i \notin Dependencies(rules, i)
DependenciesExist(rules) ==
    \A i \in DOMAIN rules : Range(rules[i].depends_on) \subseteq DOMAIN rules
Position(order, id) == CHOOSE k \in DOMAIN order : order[k] = id
EveryRuleOnceAfterItsDependencies(rules, order) ==
    /\ Len(order) = Len(rules)
    /\ Range(order) = DOMAIN rules
    /\ \A i \in DOMAIN rules : \A d \in Range(rules[i].depends_on) :
          Position(order, d) < Position(order, i)

C20_BadDependenciesRejected ==
    (engine.call = "rules" /\ engine.done
     /\ ~(Acyclic(engine.rules) /\ DependenciesExist(engine.rules)))
    => engine.err # "none" /\ engine.order = <<>>

\* the expression tree holds something outside the whitelist: a name
\* that is not an allowed variable, a call of anything but min, max or
\* round, an attribute access, a keyword argument, or a node that is not
\* a numeric literal, one of + - * /, a unary + or -, or such a call
RECURSIVE OutsideWhitelist(_)
OutsideWhitelist(node) ==
    \/ node.node \notin {"Constant", "Name", "BinOp", "UnaryOp", "Call"}
    \/ node.node = "Constant" /\ (node.tag \notin {"int", "float", "str"} \/ NotNumeric(node))
    \/ node.node = "Name" /\ node.tag \notin AllowedNames
    \/ node.node = "BinOp" /\ node.tag \notin {"Add", "Sub", "Mult", "Div"}
    \/ node.node = "UnaryOp" /\ node.tag \notin {"USub", "UAdd"}
    \/ node.node = "Call"
         /\ \/ node.func[1].node # "Name"
            \/ node.func[1].tag \notin AllowedFuncs
            \/ node.keywords # <<>>
    \/ \E i \in DOMAIN node.args : OutsideWhitelist(node.args[i])

\* C18: every expression that holds an identifier outside the allowed
\* variables, a call of anything but min, max or round, an attribute
\* access or any syntax other than numeric literals, + - * /, unary + -
\* and positional calls is rejected with a validation error and yields
\* no value.
C18_SandboxClosed ==
    (engine.call = "expr" /\ engine.done /\ OutsideWhitelist(engine.expr))
    => ~engine.result.ok

\* the rule is reached, applies, and safe_eval rejects its rate_expr
Rejected(rule) == rule.applies /\ rule.kind = "rate" /\ ~SafeEval(rule.rate_expr).ok
\* the rule applies and its evaluation raises nothing
Completes(rule) == rule.applies /\ ~Rejected(rule)

\* C21: when safe_eval rejects the expression of one rule while another
\* rule of the policy completes, evaluate_event still returns: it gives
\* postings and a trace with one entry for every rule, the entry of the
\* rejected rule included.
C21_ErrorDoesNotAbortEvent ==
    (engine.call = "event" /\ engine.done
     /\ \E i, j \in DOMAIN engine.rules :
           Rejected(engine.rules[i]) /\ Completes(engine.rules[j]))
    => /\ ~engine.out.raised
       /\ Len(engine.out.evaluations) = Len(engine.rules)

\* C22: with an operator and a non-zero percentage, the fee pass takes
\* from every non-operator participant with a positive balance its fee
\* (the percentage of its balance, rounded to cents), adds the sum of the
\* fees to the operator's balance, leaves every non-positive balance and
\* the map handed in as they were, and does not change the sum of all
\* balances.
C22_OperatorFeePass ==
    (engine.call = "fee" /\ engine.done /\ engine.operator_id # 0 /\ engine.pct # 0)
    => LET bal == engine.given
           out == engine.updated
           op == engine.operator_id
           payers == {p \in DOMAIN bal : p # op /\ bal[p] > 0}
           fee == [p \in payers |-> RoundHalfEven(bal[p] * engine.pct, 100)]
           before == IF op \in DOMAIN bal THEN bal[op] ELSE 0
       IN  /\ DOMAIN bal \subseteq DOMAIN out
           /\ DOMAIN out \subseteq DOMAIN bal \cup {op}
           /\ \A p \in payers : out[p] = bal[p] - fee[p]
           /\ payers # {} => op \in DOMAIN out
           /\ op \in DOMAIN out => out[op] = before + SumOver(fee, payers)
           /\ \A p \in DOMAIN bal \ (payers \cup {op}) : out[p] = bal[p]
           /\ engine.balances = bal
           /\ SumOver(out, DOMAIN out) = SumOver(bal, DOMAIN bal)
C22_Witness ==
    /\ engine.call = "fee" /\ engine.done
    /\ engine.operator_id = 1 /\ engine.pct = 50
    /\ engine.given = (1 :> 0 @@ 2 :> 3 @@ 3 :> -3)
    /\ engine.updated = (1 :> 2 @@ 2 :> 1 @@ 3 :> -3)

\* C23: once close_cycle has succeeded, every ledger entry of the cycle
\* falls on a date whose TradingDay is closed, so that its amount is part
\* of the DayNets the month balances are summed from.
C23_ClosedCycleCoversLedger ==
    cycle = "closed" => \A r \in BagToSet(ledger) : days[r[3]] = "closed"

\* the requests made for a billing cycle
CycleRequests == {"ingest_event", "ingest_event_and_eval", "close_day", "close_cycle"}

\* C24: a request for the cycle that starts while the cycle is closed (an
\* event, an event with policy evaluation, a close_day or a close_cycle)
\* is rejected with status 400 in its first step and changes no row of
\* any table.
C24_ClosedCycleFrozen ==
    [][(/\ cycle = "closed"
        /\ \/ \E w \in Workers : pc[w] = "idle" /\ pc'[w] # "idle"
           \/ pc' = pc /\ resp'.op \in CycleRequests)
       => (resp'.status = 400 /\ UNCHANGED dbvars)]_vars
C24_Witness ==
    /\ cycle = "closed"
    /\ resp.op = "ingest_event_and_eval"
    /\ resp.status = 400

\* C25: whatever close_cycle requests were made, the cycle has at most
\* one SettlementRun row, and no payout (creditor, amount) is stored as a
\* PayoutInstruction row more than once.
C25_OneSettlementPerCycle ==
    /\ Len(runs) <= 1
    /\ \A x, y \in BagToSet(payouts) :
          /\ CopiesIn(x, payouts) = 1
          /\ (x[2] = y[2] /\ x[3] = y[3]) => x = y

\* C26: every transfer (from, to, amount) that optimize_edges returns has
\* a sender with a negative balance, a receiver with a positive balance,
\* an amount above zero and a sender other than its receiver, and no two
\* transfers of the list have the same sender and receiver.
C26_TransferShape ==
    \A run \in {optimizer.first, optimizer.second} :
        (run.done /\ run.err = "none")
        => \A e \in run.edges :
              /\ e[1] \in DOMAIN optimizer.bal /\ optimizer.bal[e[1]] < 0
              /\ e[2] \in DOMAIN optimizer.bal /\ optimizer.bal[e[2]] > 0
              /\ e[3] > 0
              /\ e[1] # e[2]
              /\ \A x \in run.edges : (x[1] = e[1] /\ x[2] = e[2]) => x = e
C26_Witness ==
    /\ optimizer.first.done /\ optimizer.first.err = "none"
    /\ optimizer.bal = (1 :> -2 @@ 2 :> 1 @@ 3 :> 1 @@ 4 :> 0)
    /\ optimizer.first.edges = {<<1, 2, 1>>, <<1, 3, 1>>}
====
